---- MODULE Spec2Model ----
(***************************************************************************)
(* ReachInbox backend: the per-account IMAP synchronisation service        *)
(* (ImapService), the indexing sink (ElasticsearchService.indexEmail), the *)
(* AI client (AIService.categorizeEmail, getReplySuggestion), the notifier  *)
(* (NotificationService.sendInterestNotification) and the suggest-reply    *)
(* route of the API.                                                       *)
(*                                                                         *)
(* node-imap, mailparser, the Elasticsearch client, axios and the Slack    *)
(* webhook are libraries: their events, callbacks and results are the      *)
(* nondeterministic inputs of the handlers modelled here.                  *)
(***************************************************************************)
EXTENDS Integers, Sequences, FiniteSets, TLC

\* ---------------------------------------------------------------- bounds
MaxFaults == 2      \* 'close' events handled, all accounts together
MaxTicks == 1       \* runs of the keep-alive interval callback, all accounts together
MaxErrors == 1      \* 'error' events handled, all accounts together
MaxUid == 3         \* messages one account's INBOX holds
MaxArrivals == 1    \* messages that arrive while the process runs, all accounts together
MaxHandoffs == 2    \* calls of processEmail, see HandoffCap
MaxRequests == 2    \* POST /api/emails/:id/suggest-reply requests received

\* ------------------------------------------------------ program constants
ReconnectDelayMs == 10000     \* setTimeout(..., 10000)
KeepAliveMs == 300000         \* setInterval(..., 300000)
LookbackDays == 1             \* thirtyDaysAgo.setDate(thirtyDaysAgo.getDate() - 1)
DocumentedDays == 30          \* "Fetches the last 30 days of emails"

Accounts == {"acct1", "acct2"}
\* The order of the accounts' entries in IMAP_ACCOUNTS.
AccountList == <<"acct1", "acct2">>
Position(a) == CHOOSE i \in DOMAIN AccountList : AccountList[i] = a
Off == -1                     \* a timer that is not armed (undefined / cleared)
NoId == "none"                \* email.messageId === undefined
MessageIds == {"<m1>"}        \* Message-ID headers the mail carries
\* Message-ID headers of the mail an INBOX holds when the process starts.
InitialIds == <<"<m1>", "<m2>", "<m3>", "<m4>">>
Uids == 1..MaxUid
fallbackCategory == "General"
\* The labels, as far as the code tells them apart: 'Interested' and the rest
\* ('General' stands for the five labels that notify nobody).
Categories == {"Interested", "General"}
\* What POST /categorize gives: a category, a body without one, or an error
\* (timeout after 10 s, connection refused, non-2xx).
AiResults == Categories \cup {"empty", "failed"}
\* What POST /suggest-reply gives: a reply text, an empty reply, a body
\* without a reply, or an error (timeout after 20 s, connection refused,
\* non-2xx).
ReplyResults == {"Happy to talk.", "", "noReply", "failed"}
CouldNotGenerate == "Error: Could not generate suggestion."
Unreachable == "Error: AI service unreachable."
\* The :id of the requests: the id of a document and one the index never held.
RequestIds == {"<m1>", "<m9>"}
\* process.env.IMAP_ACCOUNTS:
\*   list        a JSON array with one configuration object per account
\*   missing     not set
\*   unparsable  not JSON: JSON.parse throws
\*   badEntry    a JSON array whose last entry is null: startSync throws on it
AccountsEnvs == {"list", "missing", "unparsable", "badEntry"}

VARIABLES
  alive,              \* the Node process is running (no uncaught exception yet)
  started,            \* startApp has run its account loop
  listening,          \* startApp has called app.listen
  configured,         \* the accounts listed in IMAP_ACCOUNTS
  accountsEnv,        \* what IMAP_ACCOUNTS holds, see AccountsEnvs
  slackWebhook,       \* SLACK_WEBHOOK_URL was set: notificationService.slackWebhook
  webhookSiteUrl,     \* WEBHOOK_SITE_URL was set
  phase,              \* per account: node-imap's connection, see imapState
  readyOnce,          \* per account: the once('ready') listener is still registered
  mailListeners,      \* per account: number of registered 'mail' listeners
  box,                \* per account: mailbox selection on the current connection
  keepAliveInterval,  \* per account: ms until the interval fires, or Off
  reconnectTimer,     \* per account: ms until the reconnect timeout fires, or Off
  attempts,           \* per account: calls of imap.connect()
  closes,             \* per account: 'close' events handled
  errors,             \* per account: 'error' events handled (logged)
  ticks,              \* per account: runs of the keep-alive interval callback
  noops,              \* per account: NOOP commands sent
  server,             \* per account: the INBOX on the server, uid -> [flag, mid, age]
  arrived,            \* messages that have arrived since the process started
  ops,                \* per account: node-imap's command queue (search, fetch)
  handoffs,           \* the indexEmail executions, in the order of processEmail calls
  store,              \* the 'emails' index: document id -> document
  autoIds,            \* ids Elasticsearch has generated for documents sent without one
  requests            \* the POST /api/emails/:id/suggest-reply requests received

vars == <<alive, started, listening, configured, accountsEnv, slackWebhook, webhookSiteUrl, phase, readyOnce,
          mailListeners, box, keepAliveInterval, reconnectTimer, attempts, closes,
          errors, ticks, noops, server, arrived, ops, handoffs, store, autoIds,
          requests>>

envVars == <<configured, accountsEnv, slackWebhook, webhookSiteUrl>>
connVars == <<phase, readyOnce, mailListeners, box, keepAliveInterval,
              reconnectTimer, attempts, closes, errors, ticks, noops>>
sinkVars == <<handoffs, store, autoIds>>

\* node-imap's `state` property for each phase of the connection.
\*   idle        no socket (before connect, after 'close')
\*   connecting  connect() called, socket not yet established
\*   connected   socket established, login in progress
\*   authenticated  logged in ('ready' emitted)
\*   ended       socket 'end' seen, 'close' not yet emitted
imapState(a) ==
  CASE phase[a] = "connected" -> "connected"
    [] phase[a] = "authenticated" -> "authenticated"
    [] OTHER -> "disconnected"

\* age: whole days between the message's date and the day of the backfill.
Absent == [flag |-> "absent", mid |-> NoId, age |-> 0]

RECURSIVE SumOver(_, _)
SumOver(f, S) == IF S = {} THEN 0
                 ELSE LET x == CHOOSE y \in S : TRUE IN f[x] + SumOver(f, S \ {x})
Total(f) == SumOver(f, Accounts)

\* The process before startApp has run.
InitRuntime ==
  /\ alive = TRUE
  /\ started = FALSE
  /\ listening = FALSE
  /\ phase = [a \in Accounts |-> "idle"]
  /\ readyOnce = [a \in Accounts |-> FALSE]
  /\ mailListeners = [a \in Accounts |-> 0]
  /\ box = [a \in Accounts |-> "none"]
  /\ keepAliveInterval = [a \in Accounts |-> Off]
  /\ reconnectTimer = [a \in Accounts |-> Off]
  /\ attempts = [a \in Accounts |-> 0]
  /\ closes = [a \in Accounts |-> 0]
  /\ errors = [a \in Accounts |-> 0]
  /\ ticks = [a \in Accounts |-> 0]
  /\ noops = [a \in Accounts |-> 0]
  /\ arrived = 0
  /\ ops = [a \in Accounts |-> <<>>]
  /\ handoffs = <<>>
  /\ autoIds = 0
  /\ requests = <<>>

\* The 'emails' index is empty when the process starts.
InitProcess ==
  /\ InitRuntime
  /\ store = {}

\* Every INBOX is empty when the process starts.
InitCommon ==
  /\ InitProcess
  /\ server = [a \in Accounts |-> [u \in Uids |-> Absent]]

\* One account configured, both notification sinks configured.
Init ==
  /\ InitCommon
  /\ configured = {"acct1"}
  /\ accountsEnv = "list"
  /\ slackWebhook = TRUE
  /\ webhookSiteUrl = TRUE

\* Two accounts configured, both notification sinks configured.
InitTwo ==
  /\ InitCommon
  /\ configured = Accounts
  /\ accountsEnv = "list"
  /\ slackWebhook = TRUE
  /\ webhookSiteUrl = TRUE

\* Two accounts listed, IMAP_ACCOUNTS in any shape.
InitBoot ==
  /\ InitCommon
  /\ configured = Accounts
  /\ accountsEnv \in AccountsEnvs
  /\ slackWebhook = TRUE
  /\ webhookSiteUrl = TRUE

\* One account configured, no notification sink configured.
InitKeyless ==
  /\ InitCommon
  /\ configured = {"acct1"}
  /\ accountsEnv = "list"
  /\ slackWebhook = FALSE
  /\ webhookSiteUrl = FALSE

\* One account configured; each notification sink configured or not.
InitSink ==
  /\ InitCommon
  /\ configured = {"acct1"}
  /\ accountsEnv = "list"
  /\ slackWebhook \in BOOLEAN
  /\ webhookSiteUrl \in BOOLEAN

\* Both accounts are configured, without notification sinks; each INBOX holds
\* its copy of one mail sent to both addresses: the copies carry the same
\* Message-ID header.
InitShared ==
  /\ InitProcess
  /\ configured = Accounts
  /\ accountsEnv = "list"
  /\ slackWebhook = FALSE
  /\ webhookSiteUrl = FALSE
  /\ server = [a \in Accounts |->
                 [u \in Uids |->
                    IF u = 1 THEN [flag |-> "unseen", mid |-> InitialIds[1], age |-> 0]
                             ELSE Absent]]

\* IMAP_ACCOUNTS is not set (IMAP sync disabled); the 'emails' index is empty
\* or holds the document an earlier run of the process stored for "<m1>".
InitReply ==
  /\ InitRuntime
  /\ configured = {}
  /\ accountsEnv = "missing"
  /\ slackWebhook = FALSE
  /\ webhookSiteUrl = FALSE
  /\ server = [a \in Accounts |-> [u \in Uids |-> Absent]]
  /\ \/ store = {}
     \/ \E c \in Categories :
          store = {[key |-> <<"<m1>", 0>>,
                    doc |-> [accountId |-> "acct1", messageId |-> "<m1>", aiCategory |-> c]]}

\* acct1 alone is configured, without notification sinks, and its INBOX holds
\* the messages Held, unseen and with distinct Message-IDs, when the process
\* starts, each as many days old as one of Ages. Uids ascend with the date: a
\* message is no older than the ones before it.
InitInbox(Held, Ages) ==
  /\ InitProcess
  /\ configured = {"acct1"}
  /\ accountsEnv = "list"
  /\ slackWebhook = FALSE
  /\ webhookSiteUrl = FALSE
  /\ \E ages \in [Held -> Ages] :
       /\ \A u, v \in Held : u < v => ages[u] >= ages[v]
       /\ server = [a \in Accounts |->
                      [u \in Uids |->
                         IF a = "acct1" /\ u \in Held
                           THEN [flag |-> "unseen", mid |-> InitialIds[u], age |-> ages[u]]
                           ELSE Absent]]

\* The INBOX is full: MaxUid messages.
InitMailbox(Ages) == InitInbox(Uids, Ages)

\* The INBOX has room for one more message; each message it holds is from
\* today or older than DocumentedDays.
InitLive == InitInbox(Uids \ {MaxUid}, {0, DocumentedDays + 1})

\* Scenario A: each message is from today or older than DocumentedDays.
InitBackfill == InitMailbox({0, DocumentedDays + 1})

\* Each message is from today or DocumentedDays old.
InitWindow == InitMailbox({0, DocumentedDays})

\* ------------------------------------------------------------ the process
\* An uncaught exception ends the process: every socket, timer, listener,
\* queued command and unfinished indexEmail execution goes with it.
ProcessExit ==
  /\ alive' = FALSE
  /\ phase' = [a \in Accounts |-> "idle"]
  /\ readyOnce' = [a \in Accounts |-> FALSE]
  /\ mailListeners' = [a \in Accounts |-> 0]
  /\ box' = [a \in Accounts |-> "none"]
  /\ keepAliveInterval' = [a \in Accounts |-> Off]
  /\ reconnectTimer' = [a \in Accounts |-> Off]
  /\ ops' = [a \in Accounts |-> <<>>]
  /\ handoffs' = [i \in DOMAIN handoffs |->
                    IF handoffs[i].pc = "done" THEN handoffs[i]
                    ELSE [handoffs[i] EXCEPT !.pc = "aborted"]]

\* The entries of IMAP_ACCOUNTS the forEach of startApp gets through: all of
\* a well-formed list; none when the variable is not set or JSON.parse throws;
\* the ones before the entry that startSync throws on.
Syncable ==
  CASE accountsEnv = "list" -> configured
    [] accountsEnv = "badEntry" ->
         {a \in configured : \E b \in configured : Position(a) < Position(b)}
    [] OTHER -> {}

\* new ImapService(accountConfig).startSync() for the accounts of S: the
\* listeners are registered and connect() is called.
startSync(S) ==
  /\ readyOnce' = [a \in Accounts |-> a \in S]
  /\ phase' = [a \in Accounts |-> IF a \in S THEN "connecting" ELSE "idle"]
  /\ attempts' = [a \in Accounts |-> IF a \in S THEN attempts[a] + 1 ELSE attempts[a]]

\* startApp, steps 2 and 3: startSync() for each entry in one synchronous
\* forEach, with the exceptions of JSON.parse and of the loop caught and
\* logged; then app.listen, whatever step 2 did.
startApp ==
  /\ alive /\ ~started
  /\ started' = TRUE
  /\ startSync(Syncable)
  /\ listening' = TRUE
  /\ UNCHANGED <<alive, mailListeners, box, keepAliveInterval, reconnectTimer,
                 closes, errors, ticks, noops, server, arrived, ops, envVars, sinkVars, requests>>

\* ------------------------------------------------------------ ImapService
\* The socket is established; node-imap logs in.
SocketConnected(a) ==
  /\ alive /\ phase[a] = "connecting"
  /\ phase' = [phase EXCEPT ![a] = "connected"]
  /\ UNCHANGED <<alive, started, listening, readyOnce, mailListeners, box, keepAliveInterval,
                 reconnectTimer, attempts, closes, errors, ticks, noops, server, arrived, ops,
                 envVars, sinkVars, requests>>

\* onReady: openBox('INBOX') is issued; everything else happens in its callback.
onReady(a) ==
  /\ box' = [box EXCEPT ![a] = "opening"]

\* node-imap emits 'ready'. The listener was registered with once(): it runs
\* for the first 'ready' of the ImapService and is removed.
ReadyEvent(a) ==
  /\ alive /\ phase[a] = "connected"
  /\ phase' = [phase EXCEPT ![a] = "authenticated"]
  /\ IF readyOnce[a]
       THEN /\ readyOnce' = [readyOnce EXCEPT ![a] = FALSE]
            /\ onReady(a)
       ELSE UNCHANGED <<readyOnce, box>>
  /\ UNCHANGED <<alive, started, listening, mailListeners, keepAliveInterval, reconnectTimer,
                 attempts, closes, errors, ticks, noops, server, arrived, ops, envVars, sinkVars, requests>>

\* A command handed to node-imap: it joins the queue behind those in flight.
\* uids: messages the fetch has yet to deliver; req: the uids it was issued
\* for; bad: delivered messages simpleParser failed on; out: the processEmail
\* calls made from the fetch's parser callbacks, as positions in handoffs.
SearchOp(kind) ==
  [kind |-> kind, stage |-> "search", uids |-> {}, req |-> {}, bad |-> {}, out |-> {}]
FetchOp(kind, uids) ==
  [kind |-> kind, stage |-> "fetch", uids |-> uids, req |-> uids, bad |-> {}, out |-> {}]

\* fetchInitialEmails: search([['SINCE', searchDate]], ...).
fetchInitialEmails(q) == Append(q, SearchOp("since"))

\* The 'mail' listener: when authenticated, search(['UNSEEN'], ...).
onMail(a, q) ==
  IF imapState(a) # "authenticated" THEN q ELSE Append(q, SearchOp("unseen"))

\* The openBox callback. err: throw err, inside a library callback with no
\* handler around it: an uncaught exception. Otherwise fetchInitialEmails(),
\* listenForNewEmails() (one more 'mail' listener) and the keep-alive interval.
OpenBoxCallback(a, err) ==
  /\ alive /\ phase[a] = "authenticated" /\ box[a] = "opening"
  /\ IF err
       THEN /\ ProcessExit
            /\ UNCHANGED <<started, listening, attempts, closes, errors, ticks, noops, server, arrived,
                           envVars, store, autoIds, requests>>
       ELSE /\ box' = [box EXCEPT ![a] = "open"]
            /\ ops' = [ops EXCEPT ![a] = fetchInitialEmails(@)]
            /\ mailListeners' = [mailListeners EXCEPT ![a] = @ + 1]
            /\ keepAliveInterval' = [keepAliveInterval EXCEPT ![a] = KeepAliveMs]
            /\ UNCHANGED <<alive, started, listening, phase, readyOnce, reconnectTimer,
                           attempts, closes, errors, ticks, noops, server, arrived, envVars,
                           sinkVars, requests>>

\* KeepAliveTick without the imap.state check.
KeepAliveTickUnchecked(a) ==
  /\ alive /\ keepAliveInterval[a] = 0 /\ Total(ticks) < MaxTicks
  /\ keepAliveInterval' = [keepAliveInterval EXCEPT ![a] = KeepAliveMs]
  /\ ticks' = [ticks EXCEPT ![a] = @ + 1]
  /\ noops' = [noops EXCEPT ![a] = @ + 1]
  /\ UNCHANGED <<alive, started, listening, phase, readyOnce, mailListeners, box,
                 reconnectTimer, attempts, closes, errors, server, arrived, ops, envVars,
                 sinkVars, requests>>

\* The interval callback: NOOP only when imap.state === 'authenticated'.
KeepAliveTick(a) ==
  /\ alive /\ keepAliveInterval[a] = 0 /\ Total(ticks) < MaxTicks
  /\ keepAliveInterval' = [keepAliveInterval EXCEPT ![a] = KeepAliveMs]
  /\ ticks' = [ticks EXCEPT ![a] = @ + 1]
  /\ noops' = [noops EXCEPT ![a] = IF imapState(a) = "authenticated" THEN @ + 1 ELSE @]
  /\ UNCHANGED <<alive, started, listening, phase, readyOnce, mailListeners, box,
                 reconnectTimer, attempts, closes, errors, server, arrived, ops, envVars,
                 sinkVars, requests>>

\* The 'error' listener: logs, nothing else.
ErrorEvent(a) ==
  /\ alive /\ phase[a] \in {"connecting", "connected", "authenticated", "ended"}
  /\ Total(errors) < MaxErrors
  /\ errors' = [errors EXCEPT ![a] = @ + 1]
  /\ UNCHANGED <<alive, started, listening, phase, readyOnce, mailListeners, box,
                 keepAliveInterval, reconnectTimer, attempts, closes, ticks, noops,
                 server, arrived, ops, envVars, sinkVars, requests>>

\* The socket's 'end': node-imap sets state = 'disconnected'; 'close' follows.
SocketEnd(a) ==
  /\ alive /\ phase[a] \in {"connected", "authenticated"}
  /\ phase' = [phase EXCEPT ![a] = "ended"]
  /\ UNCHANGED <<alive, started, listening, readyOnce, mailListeners, box, keepAliveInterval,
                 reconnectTimer, attempts, closes, errors, ticks, noops, server, arrived, ops,
                 envVars, sinkVars, requests>>

\* The 'close' listener: clear the keep-alive interval, arm the reconnect
\* timeout. The connection's mailbox selection and queued commands are gone.
CloseEvent(a) ==
  /\ alive /\ phase[a] \in {"connecting", "connected", "authenticated", "ended"}
  /\ Total(closes) < MaxFaults
  /\ phase' = [phase EXCEPT ![a] = "idle"]
  /\ box' = [box EXCEPT ![a] = "none"]
  /\ ops' = [ops EXCEPT ![a] = <<>>]
  /\ closes' = [closes EXCEPT ![a] = @ + 1]
  /\ keepAliveInterval' = [keepAliveInterval EXCEPT ![a] = Off]
  /\ reconnectTimer' = [reconnectTimer EXCEPT ![a] = ReconnectDelayMs]
  /\ UNCHANGED <<alive, started, listening, readyOnce, mailListeners, attempts, errors, ticks, noops,
                 server, arrived, envVars, sinkVars, requests>>

\* ReconnectFire with the timeout's delay dropped: connect() as soon as armed.
ReconnectFireEarly(a) ==
  /\ alive /\ reconnectTimer[a] # Off
  /\ reconnectTimer' = [reconnectTimer EXCEPT ![a] = Off]
  /\ phase' = [phase EXCEPT ![a] = "connecting"]
  /\ attempts' = [attempts EXCEPT ![a] = @ + 1]
  /\ UNCHANGED <<alive, started, listening, readyOnce, mailListeners, box, keepAliveInterval,
                 closes, errors, ticks, noops, server, arrived, ops, envVars, sinkVars, requests>>

\* The reconnect timeout callback: imap.connect().
ReconnectFire(a) ==
  /\ alive /\ reconnectTimer[a] = 0
  /\ reconnectTimer' = [reconnectTimer EXCEPT ![a] = Off]
  /\ phase' = [phase EXCEPT ![a] = "connecting"]
  /\ attempts' = [attempts EXCEPT ![a] = @ + 1]
  /\ UNCHANGED <<alive, started, listening, readyOnce, mailListeners, box, keepAliveInterval,
                 closes, errors, ticks, noops, server, arrived, ops, envVars, sinkVars, requests>>

\* Time passes up to the next timer that is due.
ArmedTimers ==
  ({keepAliveInterval[a] : a \in Accounts} \cup {reconnectTimer[a] : a \in Accounts})
    \ {Off}

Advance ==
  /\ alive /\ ArmedTimers # {} /\ 0 \notin ArmedTimers
  /\ LET d == CHOOSE t \in ArmedTimers : \A u \in ArmedTimers : t <= u
     IN /\ keepAliveInterval' =
             [a \in Accounts |-> IF keepAliveInterval[a] = Off THEN Off
                                 ELSE keepAliveInterval[a] - d]
        /\ reconnectTimer' =
             [a \in Accounts |-> IF reconnectTimer[a] = Off THEN Off
                                 ELSE reconnectTimer[a] - d]
  /\ UNCHANGED <<alive, started, listening, phase, readyOnce, mailListeners, box, attempts,
                 closes, errors, ticks, noops, server, arrived, ops, envVars, sinkVars, requests>>

\* ------------------------------------------------- the mailbox and its sync
RECURSIVE emitMail(_, _, _)
\* node-imap emits 'mail': every registered listener runs.
emitMail(a, q, n) == IF n = 0 THEN q ELSE emitMail(a, onMail(a, q), n - 1)

\* A message arrives in the account's INBOX. With the INBOX selected on a live
\* connection the server announces it and node-imap emits 'mail'.
NewMail(a, mid) ==
  /\ alive /\ a \in configured /\ arrived < MaxArrivals
  /\ arrived' = arrived + 1
  /\ \E u \in Uids :
       /\ server[a][u].flag = "absent"
       /\ \A v \in Uids : v < u => server[a][v].flag # "absent"
       /\ server' = [server EXCEPT ![a][u] = [flag |-> "unseen", mid |-> mid, age |-> 0]]
  /\ ops' = [ops EXCEPT ![a] =
               IF phase[a] = "authenticated" /\ box[a] = "open"
                 THEN emitMail(a, @, mailListeners[a]) ELSE @]
  /\ UNCHANGED <<alive, started, listening, phase, readyOnce, mailListeners, box,
                 keepAliveInterval, reconnectTimer, attempts, closes, errors,
                 ticks, noops, envVars, sinkVars, requests>>

\* SearchResult with the SINCE criterion dropped: every message of the INBOX.
SearchResultNoDate(a, kind) ==
  IF kind = "since"
    THEN {u \in Uids : server[a][u].flag # "absent"}
    ELSE {u \in Uids : server[a][u].flag = "unseen"}

\* Another client of the mailbox reads a message: the server marks it seen.
ReadElsewhere(a, u) ==
  /\ alive /\ a \in configured
  /\ server[a][u].flag = "unseen"
  /\ server' = [server EXCEPT ![a][u].flag = "seen"]
  /\ UNCHANGED <<alive, started, listening, connVars, arrived, ops, envVars, sinkVars, requests>>

\* What the server answers to a search.
SearchResult(a, kind) ==
  IF kind = "since"
    THEN {u \in Uids : server[a][u].flag # "absent" /\ server[a][u].age <= LookbackDays}
    ELSE {u \in Uids : server[a][u].flag = "unseen"}

\* onSearch without the uids.length === 0 check: fetch is called on an empty
\* result as well.
onSearchNoEmptyCheck(a, kind, err, uids, q) ==
  IF err THEN q
  ELSE IF kind = "since" /\ imapState(a) # "authenticated" THEN q
  ELSE Append(q, FetchOp(kind, uids))

\* The search callbacks of fetchInitialEmails and of the 'mail' listener:
\* nothing on an error or an empty result, otherwise fetch(uids, ...);
\* fetchInitialEmails checks imap.state first.
onSearch(a, kind, err, uids, q) ==
  IF err \/ uids = {} THEN q
  ELSE IF kind = "since" /\ imapState(a) # "authenticated" THEN q
  ELSE Append(q, FetchOp(kind, uids))

SearchCallback(a, err) ==
  /\ alive /\ phase[a] = "authenticated" /\ box[a] = "open"
  /\ ops[a] # <<>> /\ Head(ops[a]).stage = "search"
  /\ ops' = [ops EXCEPT ![a] =
               onSearch(a, Head(@).kind, err, SearchResult(a, Head(@).kind), Tail(@))]
  /\ UNCHANGED <<alive, started, listening, phase, readyOnce, mailListeners, box,
                 keepAliveInterval, reconnectTimer, attempts, closes, errors,
                 ticks, noops, server, arrived, envVars, sinkVars, requests>>

\* markSeen with markSeen: true passed by neither fetch.
markSeenNever(kind) == FALSE

\* markSeen with markSeen: true passed by both fetches.
markSeenAlways(kind) == TRUE

\* fetch(uids, {bodies: ''}) in fetchInitialEmails, fetch(uids, {bodies: '',
\* markSeen: true}) in the 'mail' listener.
markSeen(kind) == kind = "unseen"

\* The calls of processEmail a run is followed for: MaxHandoffs, and one more
\* for each message the INBOXes held when the process started.
HandoffCap ==
  MaxHandoffs + Total([a \in Accounts |->
                         Cardinality({u \in Uids : server[a][u].flag # "absent"})])
              - arrived

\* processEmail: indexEmail(email, accountId) is started and not awaited.
NewHandoff(a, kind, u, mid) ==
  [acct |-> a, kind |-> kind, uid |-> u, mid |-> mid, pc |-> "categorize", ai |-> "pending",
   cat |-> "none", indexed |-> "no", slack |-> <<>>, webhook |-> <<>>]

processEmail(a, kind, u, mid) ==
  handoffs' = Append(handoffs, NewHandoff(a, kind, u, mid))

\* FetchMessage without `if (err) return` in simpleParser's callback:
\* processEmail is called for a message that did not parse as well.
FetchMessageNoErrCheck(a, u, parsed) ==
  /\ alive /\ phase[a] = "authenticated" /\ box[a] = "open"
  /\ ops[a] # <<>> /\ Head(ops[a]).stage = "fetch" /\ u \in Head(ops[a]).uids
  /\ Len(handoffs) < HandoffCap
  /\ ops' = [ops EXCEPT ![a][1].uids = @ \ {u},
                         ![a][1].bad = IF parsed THEN @ ELSE @ \cup {u},
                         ![a][1].out = @ \cup {Len(handoffs) + 1}]
  /\ server' = [server EXCEPT ![a][u].flag =
                  IF markSeen(Head(ops[a]).kind) THEN "seen" ELSE @]
  /\ processEmail(a, Head(ops[a]).kind, u, server[a][u].mid)
  /\ UNCHANGED <<alive, started, listening, phase, readyOnce, mailListeners, box,
                 keepAliveInterval, reconnectTimer, attempts, closes, errors,
                 ticks, noops, arrived, envVars, store, autoIds, requests>>

\* One message of a fetch: 'message', 'body', then simpleParser's callback,
\* which logs a parse error and otherwise calls processEmail.
FetchMessage(a, u, parsed) ==
  /\ alive /\ phase[a] = "authenticated" /\ box[a] = "open"
  /\ ops[a] # <<>> /\ Head(ops[a]).stage = "fetch" /\ u \in Head(ops[a]).uids
  /\ parsed => Len(handoffs) < HandoffCap
  /\ ops' = [ops EXCEPT ![a][1].uids = @ \ {u},
                         ![a][1].bad = IF parsed THEN @ ELSE @ \cup {u},
                         ![a][1].out = IF parsed THEN @ \cup {Len(handoffs) + 1} ELSE @]
  /\ server' = [server EXCEPT ![a][u].flag =
                  IF markSeen(Head(ops[a]).kind) THEN "seen" ELSE @]
  /\ IF parsed THEN processEmail(a, Head(ops[a]).kind, u, server[a][u].mid)
               ELSE UNCHANGED handoffs
  /\ UNCHANGED <<alive, started, listening, phase, readyOnce, mailListeners, box,
                 keepAliveInterval, reconnectTimer, attempts, closes, errors,
                 ticks, noops, arrived, envVars, store, autoIds, requests>>

\* The fetch's 'end' (every message delivered) or 'error': both only log.
FetchEnd(a, err) ==
  /\ alive /\ phase[a] = "authenticated" /\ box[a] = "open"
  /\ ops[a] # <<>> /\ Head(ops[a]).stage = "fetch"
  /\ ~err => Head(ops[a]).uids = {}
  /\ ops' = [ops EXCEPT ![a] = Tail(@)]
  /\ UNCHANGED <<alive, started, listening, phase, readyOnce, mailListeners, box,
                 keepAliveInterval, reconnectTimer, attempts, closes, errors,
                 ticks, noops, server, arrived, envVars, sinkVars, requests>>

\* ------------------------------------------------------------ the sink
\* categorizeEmail without `|| fallbackCategory`: a body without a category
\* is passed on as the category.
categorizeEmailNoDefault(r) == IF r = "failed" THEN fallbackCategory ELSE r

\* AIService.categorizeEmail: data?.category || fallbackCategory, and
\* fallbackCategory from the catch block.
categorizeEmail(r) == IF r \in {"empty", "failed"} THEN fallbackCategory ELSE r

\* indexEmail, step 1: await aiService.categorizeEmail(...).
Categorize(i, r) ==
  /\ alive /\ handoffs[i].pc = "categorize"
  /\ handoffs' = [handoffs EXCEPT ![i].ai = r, ![i].cat = categorizeEmail(r),
                                  ![i].pc = "index"]
  /\ UNCHANGED <<alive, started, listening, connVars, server, arrived, ops, envVars, store, autoIds, requests>>

\* indexEmail, step 2: the document.
Document(h) == [accountId |-> h.acct, messageId |-> h.mid, aiCategory |-> h.cat]

\* DocKey with the id taken from the document alone: documents without a
\* Message-ID share one key.
DocKeyFromDocument(h) == <<h.mid, 0>>

\* client.index({id: document.messageId, ...}): the document replaces the one
\* with that id; without an id Elasticsearch generates a fresh one.
DocKey(h) == IF h.mid # NoId THEN <<h.mid, 0>> ELSE <<NoId, autoIds + 1>>

Upsert(s, key, doc) == {e \in s : e.key # key} \cup {[key |-> key, doc |-> doc]}

\* sendInterestNotification up to its first await: return unless 'Interested',
\* then the first configured sink.
AfterSlack == IF webhookSiteUrl THEN "webhook" ELSE "done"
sendInterestNotification(doc) ==
  IF doc.aiCategory # "Interested" THEN "done"
  ELSE IF slackWebhook THEN "slack" ELSE AfterSlack

\* IndexDocument without indexEmail's try/catch and processEmail's .catch():
\* the rejection of client.index is an unhandled rejection, which ends the
\* process.
IndexDocumentUnhandled(i, ok) ==
  /\ alive /\ handoffs[i].pc = "index"
  /\ IF ok
       THEN /\ store' = Upsert(store, DocKey(handoffs[i]), Document(handoffs[i]))
            /\ autoIds' = IF handoffs[i].mid = NoId THEN autoIds + 1 ELSE autoIds
            /\ handoffs' = [handoffs EXCEPT ![i].indexed = "ok",
                              ![i].pc = sendInterestNotification(Document(handoffs[i]))]
            /\ UNCHANGED <<alive, connVars, ops>>
       ELSE /\ ProcessExit
            /\ UNCHANGED <<store, autoIds, attempts, closes, errors, ticks, noops>>
  /\ UNCHANGED <<started, listening, server, arrived, envVars, requests>>

\* IndexDocument with client.index in a try/catch of its own: step 4 follows
\* a rejected write as well.
IndexDocumentThenNotify(i, ok) ==
  /\ alive /\ handoffs[i].pc = "index"
  /\ IF ok
       THEN /\ store' = Upsert(store, DocKey(handoffs[i]), Document(handoffs[i]))
            /\ autoIds' = IF handoffs[i].mid = NoId THEN autoIds + 1 ELSE autoIds
       ELSE UNCHANGED <<store, autoIds>>
  /\ handoffs' = [handoffs EXCEPT ![i].indexed = IF ok THEN "ok" ELSE "failed",
                    ![i].pc = sendInterestNotification(Document(handoffs[i]))]
  /\ UNCHANGED <<alive, started, listening, connVars, server, arrived, ops, envVars, requests>>

\* indexEmail, step 3: await client.index(...); a rejection goes to the catch
\* block, which logs. Step 4 follows a success.
IndexDocument(i, ok) ==
  /\ alive /\ handoffs[i].pc = "index"
  /\ IF ok
       THEN /\ store' = Upsert(store, DocKey(handoffs[i]), Document(handoffs[i]))
            /\ autoIds' = IF handoffs[i].mid = NoId THEN autoIds + 1 ELSE autoIds
            /\ handoffs' = [handoffs EXCEPT ![i].indexed = "ok",
                              ![i].pc = sendInterestNotification(Document(handoffs[i]))]
       ELSE /\ handoffs' = [handoffs EXCEPT ![i].indexed = "failed", ![i].pc = "done"]
            /\ UNCHANGED <<store, autoIds>>
  /\ UNCHANGED <<alive, started, listening, connVars, server, arrived, ops, envVars, requests>>

\* NotifySlack without its try/catch: a rejection reaches indexEmail's catch
\* block and the webhook is skipped.
NotifySlackUncaught(i, ok) ==
  /\ alive /\ handoffs[i].pc = "slack"
  /\ handoffs' = [handoffs EXCEPT ![i].slack = Append(@, IF ok THEN "sent" ELSE "failed"),
                                  ![i].pc = IF ok THEN AfterSlack ELSE "done"]
  /\ UNCHANGED <<alive, started, listening, connVars, server, arrived, ops, envVars, store, autoIds, requests>>

\* await slackWebhook.send(...) inside its own try/catch.
NotifySlack(i, ok) ==
  /\ alive /\ handoffs[i].pc = "slack"
  /\ handoffs' = [handoffs EXCEPT ![i].slack = Append(@, IF ok THEN "sent" ELSE "failed"),
                                  ![i].pc = AfterSlack]
  /\ UNCHANGED <<alive, started, listening, connVars, server, arrived, ops, envVars, store, autoIds, requests>>

\* await axios.post(webhookSiteUrl, email) inside its own try/catch.
NotifyWebhook(i, ok) ==
  /\ alive /\ handoffs[i].pc = "webhook"
  /\ handoffs' = [handoffs EXCEPT ![i].webhook = Append(@, IF ok THEN "sent" ELSE "failed"),
                                  ![i].pc = "done"]
  /\ UNCHANGED <<alive, started, listening, connVars, server, arrived, ops, envVars, store, autoIds, requests>>

\* ------------------------------------- POST /api/emails/:id/suggest-reply
\* getReplySuggestion without `|| 'Error: Could not generate suggestion.'`:
\* what the response holds as its reply is returned as it is.
getReplySuggestionNoDefault(r) == IF r = "failed" THEN Unreachable ELSE r

\* AIService.getReplySuggestion: data?.reply || 'Error: Could not generate
\* suggestion.', and 'Error: AI service unreachable.' from the catch block.
getReplySuggestion(r) ==
  IF r = "failed" THEN Unreachable
  ELSE IF r \in {"", "noReply"} THEN CouldNotGenerate
  ELSE r

\* The route handler is entered: the server is listening.
SuggestReplyRequest(id) ==
  /\ alive /\ listening
  /\ Len(requests) < MaxRequests
  /\ requests' = Append(requests, [id |-> id, pc |-> "get", category |-> "none",
                                   ai |-> "none", status |-> 0, suggestion |-> "none"])
  /\ UNCHANGED <<alive, started, listening, connVars, server, arrived, ops, envVars, sinkVars>>

\* await esClient.get({index: 'emails', id}): res is "hit", "noSource" (a hit
\* without _source) or "rejected" (no such document, Elasticsearch down).
\* Without _source the handler answers 404, a rejection goes to the catch
\* block, which answers 500.
GetEmail(n, res) ==
  /\ alive /\ requests[n].pc = "get"
  /\ res \in {"hit", "noSource"} => \E e \in store : e.key = <<requests[n].id, 0>>
  /\ requests' =
       [requests EXCEPT ![n] =
          CASE res = "hit" ->
                 [@ EXCEPT !.pc = "suggest",
                           !.category =
                              (CHOOSE e \in store : e.key = <<requests[n].id, 0>>).doc.aiCategory]
            [] res = "noSource" -> [@ EXCEPT !.pc = "done", !.status = 404]
            [] OTHER -> [@ EXCEPT !.pc = "done", !.status = 500]]
  /\ UNCHANGED <<alive, started, listening, connVars, server, arrived, ops, envVars, sinkVars>>

\* await aiService.getReplySuggestion(emailBody, emailCategory), then
\* res.json({suggestion}): status 200.
SuggestReply(n, r) ==
  /\ alive /\ requests[n].pc = "suggest"
  /\ requests' = [requests EXCEPT ![n].pc = "done", ![n].ai = r, ![n].status = 200,
                                  ![n].suggestion = getReplySuggestion(r)]
  /\ UNCHANGED <<alive, started, listening, connVars, server, arrived, ops, envVars, sinkVars>>

\* ------------------------------------------------------- specifications
\* The supervisors: connection, timers, searches and fetches. The indexEmail
\* executions they start stay in flight; no step of the sink reads or writes
\* a supervisor's state.
Next ==
  \/ startApp
  \/ \E a \in Accounts : SocketConnected(a)
  \/ \E a \in Accounts : ReadyEvent(a)
  \/ \E a \in Accounts : \E err \in BOOLEAN : OpenBoxCallback(a, err)
  \/ \E a \in Accounts : KeepAliveTick(a)
  \/ \E a \in Accounts : ErrorEvent(a)
  \/ \E a \in Accounts : SocketEnd(a)
  \/ \E a \in Accounts : CloseEvent(a)
  \/ \E a \in Accounts : ReconnectFire(a)
  \/ Advance
  \/ \E a \in Accounts : \E mid \in MessageIds : NewMail(a, mid)
  \/ \E a \in Accounts : \E u \in Uids : ReadElsewhere(a, u)
  \/ \E a \in Accounts : \E err \in BOOLEAN : SearchCallback(a, err)
  \/ \E a \in Accounts : \E u \in Uids : \E parsed \in BOOLEAN : FetchMessage(a, u, parsed)
  \/ \E a \in Accounts : \E err \in BOOLEAN : FetchEnd(a, err)

Spec == Init /\ [][Next]_vars

SpecTwo == InitTwo /\ [][Next]_vars

\* The sink behind a connection that stays up: every sequence of processEmail
\* calls a supervisor can make is made on such a connection (a fault only cuts
\* the fetches short), and the sink's steps do not read the connection.
NextSink ==
  \/ startApp
  \/ \E a \in Accounts : SocketConnected(a)
  \/ \E a \in Accounts : ReadyEvent(a)
  \/ \E a \in Accounts : OpenBoxCallback(a, FALSE)
  \/ \E a \in Accounts : \E mid \in MessageIds : NewMail(a, mid)
  \/ \E a \in Accounts : \E err \in BOOLEAN : SearchCallback(a, err)
  \/ \E a \in Accounts : \E u \in Uids : \E parsed \in BOOLEAN : FetchMessage(a, u, parsed)
  \/ \E a \in Accounts : \E err \in BOOLEAN : FetchEnd(a, err)
  \/ \E i \in DOMAIN handoffs : \E r \in AiResults : Categorize(i, r)
  \/ \E i \in DOMAIN handoffs : \E ok \in BOOLEAN : IndexDocument(i, ok)
  \/ \E i \in DOMAIN handoffs : \E ok \in BOOLEAN : NotifySlack(i, ok)
  \/ \E i \in DOMAIN handoffs : \E ok \in BOOLEAN : NotifyWebhook(i, ok)

SpecSink == InitSink /\ [][NextSink]_vars

\* Scenario A: the first connection, which stays up, and its backfill; no
\* mail arrives.
NextBackfill ==
  \/ startApp
  \/ \E a \in Accounts : SocketConnected(a)
  \/ \E a \in Accounts : ReadyEvent(a)
  \/ \E a \in Accounts : OpenBoxCallback(a, FALSE)
  \/ \E a \in Accounts : \E err \in BOOLEAN : SearchCallback(a, err)
  \/ \E a \in Accounts : \E u \in Uids : \E parsed \in BOOLEAN : FetchMessage(a, u, parsed)
  \/ \E a \in Accounts : \E err \in BOOLEAN : FetchEnd(a, err)
  \/ \E i \in DOMAIN handoffs : \E r \in AiResults : Categorize(i, r)
  \/ \E i \in DOMAIN handoffs : \E ok \in BOOLEAN : IndexDocument(i, ok)

SpecBackfill == InitBackfill /\ [][NextBackfill]_vars

SpecWindow == InitWindow /\ [][NextBackfill]_vars

\* Startup and the connections it leaves behind, up to 'ready'.
NextBoot ==
  \/ startApp
  \/ \E a \in Accounts : SocketConnected(a)
  \/ \E a \in Accounts : ReadyEvent(a)
  \/ \E a \in Accounts : SocketEnd(a)
  \/ \E a \in Accounts : CloseEvent(a)
  \/ \E a \in Accounts : ReconnectFire(a)
  \/ Advance

SpecBoot == InitBoot /\ [][NextBoot]_vars

\* One connection that stays up, its backfill and its 'mail' listener's
\* fetches over an INBOX that already holds unseen mail; the indexEmail
\* executions stay in flight.
NextLive ==
  \/ startApp
  \/ \E a \in Accounts : SocketConnected(a)
  \/ \E a \in Accounts : ReadyEvent(a)
  \/ \E a \in Accounts : OpenBoxCallback(a, FALSE)
  \/ \E a \in Accounts : \E mid \in MessageIds : NewMail(a, mid)
  \/ \E a \in Accounts : \E err \in BOOLEAN : SearchCallback(a, err)
  \/ \E a \in Accounts : \E u \in Uids : \E parsed \in BOOLEAN : FetchMessage(a, u, parsed)
  \/ \E a \in Accounts : \E err \in BOOLEAN : FetchEnd(a, err)

SpecLive == InitLive /\ [][NextLive]_vars

\* The backfills of two accounts that hold the same mail.
SpecShared == InitShared /\ [][NextBackfill]_vars

\* The API of a process without IMAP accounts.
NextReply ==
  \/ startApp
  \/ \E id \in RequestIds : SuggestReplyRequest(id)
  \/ \E n \in DOMAIN requests : \E res \in {"hit", "noSource", "rejected"} : GetEmail(n, res)
  \/ \E n \in DOMAIN requests : \E r \in ReplyResults : SuggestReply(n, r)

SpecReply == InitReply /\ [][NextReply]_vars

\* Scenario B: the mail that arrives carries no Message-ID header.
NextKeyless ==
  \/ NextBackfill
  \/ \E a \in Accounts : NewMail(a, NoId)

SpecKeyless == InitKeyless /\ [][NextKeyless]_vars

\* ------------------------------------------------------------- properties
\* C1: while the process runs, an account that has handled N 'close' events
\* has called connect() N+1 times once no reconnect timeout is pending (N
\* with one pending), and connect() is called again only by the timeout
\* callback, when the 10 s delay has run out.
C1_ReconnectAttempts ==
  /\ [](\A a \in configured :
          (started /\ alive) =>
            attempts[a] + (IF reconnectTimer[a] # Off THEN 1 ELSE 0) = closes[a] + 1)
  /\ [][\A a \in Accounts :
          (started /\ attempts'[a] # attempts[a]) =>
            /\ reconnectTimer[a] = 0
            /\ attempts'[a] = attempts[a] + 1]_vars

\* C1 witness: two faults, three connect attempts.
C1_Witness == closes["acct1"] = 2 /\ attempts["acct1"] = 3

\* C2: every time a connection becomes ready, the INBOX is opened (openBox is
\* issued), which the backfill follows.
C2_BackfillPerConnection ==
  [][\A a \in Accounts :
       (phase[a] = "connected" /\ phase'[a] = "authenticated") => box'[a] = "opening"]_vars

\* C3: a message that arrives while the account's connection is ready is
\* picked up: an UNSEEN search is queued for it, or the INBOX is being opened
\* and the backfill will follow.
C3_NewMailIsSearched ==
  [][\A a \in Accounts :
       (/\ phase[a] = "authenticated"
        /\ \E u \in Uids : server[a][u].flag = "absent" /\ server'[a][u].flag = "unseen")
       => (box[a] = "opening" \/ Len(ops'[a]) = Len(ops[a]) + 1)]_vars

\* C4: once started, the process keeps running whatever connect, openBox,
\* search, fetch or parse answer.
C4_ProcessKeepsRunning == started => alive

\* A connection fault of account a: connect failure or close, socket end,
\* 'error' event, openBox failure.
Fault(a) ==
  \/ CloseEvent(a)
  \/ SocketEnd(a)
  \/ ErrorEvent(a)
  \/ OpenBoxCallback(a, TRUE)

HandoffsOf(hs, b) == [i \in {j \in DOMAIN hs : hs[j].acct = b} |-> hs[i]]

\* C5: a connection fault of one account leaves every other account's
\* connection, keep-alive timer, queued searches and fetches and indexEmail
\* executions as they were.
C5_Isolation ==
  [][\A a \in Accounts : Fault(a) =>
       \A b \in Accounts \ {a} :
         /\ phase'[b] = phase[b]
         /\ box'[b] = box[b]
         /\ keepAliveInterval'[b] = keepAliveInterval[b]
         /\ ops'[b] = ops[b]
         /\ HandoffsOf(handoffs', b) = HandoffsOf(handoffs, b)]_vars

\* C6: when a message identifier has been handed off by two passes and both
\* indexEmail executions have stored their document and finished, the index
\* holds one document under that identifier: the later pass's.
C6_IdempotentOverwrite ==
  \A i, j \in DOMAIN handoffs :
    (/\ i < j
     /\ handoffs[i].acct = handoffs[j].acct
     /\ handoffs[i].mid = handoffs[j].mid /\ handoffs[j].mid # NoId
     /\ handoffs[i].pc = "done" /\ handoffs[i].indexed = "ok"
     /\ handoffs[j].pc = "done" /\ handoffs[j].indexed = "ok")
    => {e \in store : e.key = <<handoffs[j].mid, 0>>}
         = {[key |-> <<handoffs[j].mid, 0>>, doc |-> Document(handoffs[j])]}

\* C7: whenever an account's connection is ready (and not just opening the
\* INBOX), its keep-alive interval is armed.
C7_KeepAliveCoverage ==
  \A a \in Accounts :
    (phase[a] = "authenticated" /\ box[a] # "opening") => keepAliveInterval[a] # Off

\* C8: a NOOP is sent only by an interval callback that finds imap.state
\* 'authenticated'; a callback in any other state sends nothing; and the
\* interval is armed only on an established connection, never after its
\* 'close' event.
C8_KeepAliveSafety ==
  /\ [][\A a \in Accounts :
          /\ noops'[a] # noops[a] => (imapState(a) = "authenticated" /\ ticks'[a] = ticks[a] + 1)
          /\ (ticks'[a] # ticks[a] /\ imapState(a) # "authenticated") => noops'[a] = noops[a]]_vars
  /\ [](\A a \in Accounts :
          keepAliveInterval[a] # Off => phase[a] \in {"authenticated", "ended"})

\* C8 witness: the interval callback ran on an ended connection, sent nothing,
\* and the 'close' event then cleared the interval.
C8_Witness ==
  \E a \in Accounts :
    /\ ticks[a] = 1 /\ noops[a] = 0
    /\ phase[a] = "idle" /\ closes[a] = 1 /\ keepAliveInterval[a] = Off

Attempts(sinkOn, tried) == Len(tried) = (IF sinkOn THEN 1 ELSE 0)

\* C9: an indexEmail execution that stored an 'Interested' document and
\* finished has made exactly one attempt on each configured sink, whatever
\* the other sink's attempt gave; no execution ever makes more than one.
C9_OneAttemptPerSink ==
  \A i \in DOMAIN handoffs :
    /\ Len(handoffs[i].slack) <= 1 /\ Len(handoffs[i].webhook) <= 1
    /\ (/\ handoffs[i].pc = "done" /\ handoffs[i].indexed = "ok"
        /\ handoffs[i].cat = "Interested")
       => /\ Attempts(slackWebhook, handoffs[i].slack)
          /\ Attempts(webhookSiteUrl, handoffs[i].webhook)

\* C9 witness: the Slack attempt failed and the webhook was still tried.
C9_Witness ==
  \E i \in DOMAIN handoffs :
    /\ handoffs[i].pc = "done" /\ handoffs[i].cat = "Interested"
    /\ handoffs[i].slack = <<"failed">> /\ handoffs[i].webhook = <<"sent">>

AiFailed(h) == h.ai \in {"empty", "failed"}

\* C10: when the categorize request fails or carries no category, the
\* execution goes on with 'General', sends that document to the index (it is
\* there when the write succeeds) and makes no notification attempt.
C10_FallbackOnAiFailure ==
  /\ [](\A i \in DOMAIN handoffs : AiFailed(handoffs[i]) =>
          /\ handoffs[i].cat = "General"
          /\ handoffs[i].slack = <<>> /\ handoffs[i].webhook = <<>>
          /\ handoffs[i].pc = "done" => handoffs[i].indexed # "no")
  /\ [][\A i \in DOMAIN handoffs :
          (/\ AiFailed(handoffs[i])
           /\ handoffs[i].indexed = "no" /\ handoffs'[i].indexed = "ok")
          => \E e \in store' :
               e.doc = [accountId |-> handoffs[i].acct, messageId |-> handoffs[i].mid,
                        aiCategory |-> "General"]]_vars

\* C10 witness: the categorize request failed, the document was stored as
\* 'General' and the execution finished without notifying.
C10_Witness ==
  \E i \in DOMAIN handoffs :
    /\ handoffs[i].ai = "failed" /\ handoffs[i].pc = "done" /\ handoffs[i].indexed = "ok"
    /\ \E e \in store : e.doc.aiCategory = "General" /\ e.doc.messageId = handoffs[i].mid

\* A later pass of account a's supervisor can still come across message u:
\* the message is unseen (an UNSEEN search returns it), a queued command
\* covers it, or a backfill is still to be issued on some 'ready'.
Rediscoverable(a, u) ==
  \/ server[a][u].flag = "unseen"
  \/ \E k \in DOMAIN ops[a] :
        \/ ops[a][k].stage = "search" /\ u \in SearchResult(a, ops[a][k].kind)
        \/ ops[a][k].stage = "fetch" /\ u \in ops[a][k].uids
  \/ readyOnce[a]
  \/ box[a] = "opening"

\* C11: a message whose index write failed, and that has not been handed off
\* again since, is still within reach of the running supervisor as long as it
\* is unseen or inside the search window: the next backfill or the next
\* UNSEEN search will hand it off again.
C11_Resurfacing ==
  \A i \in DOMAIN handoffs :
    LET h == handoffs[i] IN
      (/\ alive
       /\ h.indexed = "failed"
       /\ server[h.acct][h.uid].flag = "unseen" \/ server[h.acct][h.uid].age <= LookbackDays
       /\ ~\E j \in DOMAIN handoffs :
              j > i /\ handoffs[j].acct = h.acct /\ handoffs[j].uid = h.uid)
      => Rediscoverable(h.acct, h.uid)

\* Account a's backfill fetch has delivered every message it was issued for,
\* and each was parsed.
BackfillComplete(a) ==
  /\ ops[a] # <<>>
  /\ Head(ops[a]).kind = "since" /\ Head(ops[a]).stage = "fetch"
  /\ Head(ops[a]).uids = {} /\ Head(ops[a]).bad = {}

BackfillHandoffs == {i \in DOMAIN handoffs : handoffs[i].kind = "since"}

\* The messages the SINCE search covers.
InWindow(a) ==
  {u \in Uids : server[a][u].flag # "absent" /\ server[a][u].age <= LookbackDays}

KeylessStored == {e \in store : e.doc.messageId = NoId}
KeylessWritten == {i \in DOMAIN handoffs : handoffs[i].mid = NoId /\ handoffs[i].indexed = "ok"}

\* C13: every accepted write of a message without Message-ID is a document of
\* its own: k such writes are k stored documents, none replaced by another,
\* and none of them ends the process.
C13_KeylessAccepted ==
  /\ Cardinality(KeylessStored) = Cardinality(KeylessWritten)
  /\ KeylessWritten # {} => alive

\* C13 witness: two handoffs without Message-ID written, two documents.
C13_Witness ==
  /\ Cardinality(KeylessWritten) = 2
  /\ Cardinality(KeylessStored) = 2

\* C14: no step of the backfill's search or fetch (a result, a delivered
\* message, the end) changes a flag of the account's INBOX.
C14_BackfillKeepsFlags ==
  [][\A a \in Accounts :
       (/\ ops[a] # <<>> /\ Head(ops[a]).kind = "since"
        /\ ops'[a] # ops[a] /\ arrived' = arrived)
       => \A u \in Uids : server'[a][u].flag = server[a][u].flag]_vars

\* C14 witness: the backfill has handed off a message that is still unseen.
C14_Witness ==
  \E i \in DOMAIN handoffs :
    /\ handoffs[i].kind = "since"
    /\ server[handoffs[i].acct][handoffs[i].uid].flag = "unseen"

\* C15: every message a 'mail' listener's fetch has delivered is seen on the
\* server, whether simpleParser failed on it, or it was handed off and its
\* indexEmail failed, or not.
C15_LiveFetchMarksSeen ==
  /\ \A a \in Accounts : \A k \in DOMAIN ops[a] :
       (ops[a][k].kind = "unseen" /\ ops[a][k].stage = "fetch")
       => \A u \in ops[a][k].req \ ops[a][k].uids : server[a][u].flag = "seen"
  /\ \A i \in DOMAIN handoffs :
       handoffs[i].kind = "unseen"
       => server[handoffs[i].acct][handoffs[i].uid].flag = "seen"

\* C15 witness: a 'mail' listener's fetch delivered a message that did not
\* parse, and the message is seen.
C15_Witness ==
  \E a \in Accounts :
    /\ ops[a] # <<>>
    /\ Head(ops[a]).kind = "unseen" /\ Head(ops[a]).stage = "fetch"
    /\ Head(ops[a]).bad # {}
    /\ \A u \in Head(ops[a]).bad : server[a][u].flag = "seen"

\* A search callback of account a runs in this step: the queue changes behind
\* a search at its head, and not through a close, an arrival or the process's
\* end.
SearchCallbackStep(a) ==
  /\ ops[a] # <<>> /\ Head(ops[a]).stage = "search"
  /\ ops'[a] # ops[a]
  /\ closes'[a] = closes[a] /\ arrived' = arrived /\ alive'

\* C16: a search callback that is given an empty result, of the backfill's
\* search or of an UNSEEN search, queues no fetch, leaves the connection, the
\* keep-alive interval and the reconnect timeout as they are, and leaves the
\* INBOX open with its 'mail' listener.
C16_EmptySearchIsSuccess ==
  [][\A a \in Accounts :
       (SearchCallbackStep(a) /\ SearchResult(a, Head(ops[a]).kind) = {})
       => /\ ops'[a] = Tail(ops[a])
          /\ phase'[a] = phase[a] /\ phase'[a] = "authenticated"
          /\ reconnectTimer'[a] = reconnectTimer[a]
          /\ keepAliveInterval'[a] = keepAliveInterval[a]
          /\ attempts'[a] = attempts[a]
          /\ box'[a] = "open"
          /\ mailListeners'[a] = mailListeners[a] /\ mailListeners'[a] >= 1]_vars

\* C16 witness: the backfill's search ran on an INBOX with nothing in the
\* window; the connection is up, the INBOX open and watched, nothing queued.
C16_Witness ==
  /\ alive /\ phase["acct1"] = "authenticated" /\ box["acct1"] = "open"
  /\ InWindow("acct1") = {} /\ arrived = 0
  /\ ops["acct1"] = <<>> /\ handoffs = <<>>
  /\ mailListeners["acct1"] = 1
  /\ closes["acct1"] = 0 /\ reconnectTimer["acct1"] = Off

\* The accounts whose ImapService is running: connect() has been called.
Running == {a \in Accounts : attempts[a] > 0}

\* C17: when startApp is through, either IMAP_ACCOUNTS was a well-formed list
\* and every listed account is running, or nothing is in service: no account
\* is running and the API server does not listen. Never a proper subset of
\* the listed accounts.
C17_MalformedConfigIsFatal ==
  started =>
    /\ Running = {} \/ Running = configured
    /\ accountsEnv # "list" => (Running = {} /\ ~listening)

\* C18: the backfill's search, when the server answers it, covers every
\* message of the INBOX dated within the last DocumentedDays days.
C18_BackfillThirtyDays ==
  \A a \in Accounts :
    (/\ ops[a] # <<>>
     /\ Head(ops[a]).kind = "since" /\ Head(ops[a]).stage = "search")
    => {u \in Uids : server[a][u].flag # "absent" /\ server[a][u].age <= DocumentedDays}
         \subseteq SearchResult(a, "since")

\* C19: handling an 'error' event or a 'close' event of account a leaves the
\* account disconnected, its keep-alive interval cleared and its reconnect
\* timeout armed.
C19_FaultPath ==
  [][\A a \in Accounts :
       (errors'[a] = errors[a] + 1 \/ closes'[a] = closes[a] + 1)
       => /\ phase'[a] \notin {"connected", "authenticated"}
          /\ keepAliveInterval'[a] = Off
          /\ reconnectTimer'[a] # Off]_vars

\* C20: while a command of account a's backfill (its search, its fetch) is
\* queued or running, no UNSEEN search and no fetch of a 'mail' listener is
\* queued for the account.
C20_BackfillBeforeLive ==
  \A a \in Accounts :
    (\E k \in DOMAIN ops[a] : ops[a][k].kind = "since")
    => ~\E k \in DOMAIN ops[a] : ops[a][k].kind = "unseen"

\* A step of an indexEmail execution: a handoff advances, none is added.
SinkStep == Len(handoffs') = Len(handoffs) /\ handoffs' # handoffs

\* C21: no step of an indexEmail execution, whatever the categoriser, the
\* store or a notification sink answered, ends the process or changes an
\* account's connection, INBOX selection, timers, listeners or queued
\* commands: the supervisor is where it would be had the step succeeded.
C21_HandoffFailuresAbsorbed ==
  [][SinkStep =>
       /\ alive'
       /\ UNCHANGED <<phase, readyOnce, mailListeners, box, keepAliveInterval,
                      reconnectTimer, attempts, closes, server, ops>>]_vars

\* C21 witness: an indexEmail execution failed at the store, and the account,
\* still connected with its INBOX open and its interval armed, has handed off
\* another message since.
C21_Witness ==
  /\ alive /\ phase["acct1"] = "authenticated" /\ box["acct1"] = "open"
  /\ keepAliveInterval["acct1"] # Off
  /\ \E i, j \in DOMAIN handoffs :
       i < j /\ handoffs[i].indexed = "failed" /\ handoffs[j].pc = "categorize"

\* The messages a fetch has delivered so far.
Delivered(op) == op.req \ op.uids

\* C22: of the messages a fetch, the backfill's or a 'mail' listener's, has
\* delivered so far, exactly those simpleParser did not fail on have been
\* handed off, once each and under the fetch's account; a parse failure
\* leaves the rest of the fetch to be delivered and handed off.
C22_DecodeFailureSkipsOne ==
  \A a \in Accounts : \A k \in DOMAIN ops[a] :
    LET op == ops[a][k] IN
      op.stage = "fetch" =>
        /\ op.bad \subseteq Delivered(op)
        /\ op.out \subseteq DOMAIN handoffs
        /\ {handoffs[i].uid : i \in op.out} = Delivered(op) \ op.bad
        /\ Cardinality(op.out) = Cardinality(Delivered(op) \ op.bad)
        /\ \A i \in op.out : handoffs[i].acct = a /\ handoffs[i].kind = op.kind

\* C22 witness: a 'mail' listener's fetch of three messages has delivered
\* all of them; the first delivered did not parse, the other two were handed
\* off.
C22_Witness ==
  \E a \in Accounts :
    /\ ops[a] # <<>>
    /\ Head(ops[a]).kind = "unseen" /\ Head(ops[a]).stage = "fetch"
    /\ Head(ops[a]).uids = {}
    /\ Cardinality(Head(ops[a]).req) = 3
    /\ Cardinality(Head(ops[a]).bad) = 1
    /\ Cardinality(Head(ops[a]).out) = 2
    /\ \A u \in Head(ops[a]).bad : \A i \in Head(ops[a]).out :
         server[a][u].flag = "seen" /\ handoffs[i].uid # u

\* A step in which a notification sink answers an attempt of handoff i.
NotifyStep(i) ==
  \/ Len(handoffs'[i].slack) > Len(handoffs[i].slack)
  \/ Len(handoffs'[i].webhook) > Len(handoffs[i].webhook)

\* C23: within one indexEmail execution the store write comes after the
\* category, and a notification is attempted (or about to be) only after
\* that execution's write has succeeded; a notification attempt, failed or
\* sent, leaves the store as it was.
C23_NotifyAfterPersist ==
  /\ [](\A i \in DOMAIN handoffs :
         /\ handoffs[i].indexed # "no" => handoffs[i].ai # "pending"
         /\ (\/ handoffs[i].pc \in {"slack", "webhook"}
             \/ handoffs[i].slack # <<>>
             \/ handoffs[i].webhook # <<>>)
              => handoffs[i].indexed = "ok" /\ handoffs[i].cat = "Interested")
  /\ [][\A i \in DOMAIN handoffs :
          NotifyStep(i) => store' = store /\ autoIds' = autoIds]_vars

\* C23 witness: both sinks have failed on a handoff whose document is in the
\* store.
C23_Witness ==
  \E i \in DOMAIN handoffs :
    /\ handoffs[i].pc = "done" /\ handoffs[i].indexed = "ok"
    /\ handoffs[i].slack = <<"failed">> /\ handoffs[i].webhook = <<"failed">>
    /\ [key |-> DocKey(handoffs[i]), doc |-> Document(handoffs[i])] \in store

\* C24: whenever POST /suggest-reply of the AI service fails, times out or
\* answers without a reply, the route answers 200 with getReplySuggestion's
\* error string as the suggestion: 'Error: AI service unreachable.' for a
\* failure, 'Error: Could not generate suggestion.' for a missing reply.
C24_SuggestionFailuresAreValues ==
  \A n \in DOMAIN requests :
    /\ requests[n].ai = "failed" =>
         requests[n].status = 200 /\ requests[n].suggestion = Unreachable
    /\ requests[n].ai \in {"", "noReply"} =>
         requests[n].status = 200 /\ requests[n].suggestion = CouldNotGenerate

\* C24 witness: the AI service failed on one request and answered another
\* without a reply; both have been answered.
C24_Witness ==
  \E m, n \in DOMAIN requests :
    /\ requests[m].pc = "done" /\ requests[m].ai = "failed"
    /\ requests[n].pc = "done" /\ requests[n].ai = "noReply"

\* C25: the document an indexEmail execution has written for an account
\* stays in the store as that account's document: for every execution whose
\* write succeeded the store holds a document with its accountId and its
\* messageId, whatever the other accounts hand off.
C25_AccountNamespacesStore ==
  \A i \in DOMAIN handoffs :
    handoffs[i].indexed = "ok" =>
      \E e \in store : /\ e.doc.accountId = handoffs[i].acct
                        /\ e.doc.messageId = handoffs[i].mid

\* The attempts made on a sink (field f: "slack" or "webhook") for the
\* message of account a with Message-ID mid, over all indexEmail executions.
RECURSIVE SentFor(_, _, _, _)
SentFor(f, a, mid, n) ==
  IF n = 0 THEN 0
  ELSE SentFor(f, a, mid, n - 1)
         + (IF handoffs[n].acct = a /\ handoffs[n].mid = mid
              THEN Len(IF f = "slack" THEN handoffs[n].slack ELSE handoffs[n].webhook)
              ELSE 0)

\* C26: over all the handoffs of one message (the backfill's and a 'mail'
\* listener's fetch of the same message, or two listeners' fetches), each
\* sink is sent at most one notification.
C26_NotifiedOnce ==
  \A a \in Accounts : \A mid \in MessageIds : \A f \in {"slack", "webhook"} :
    SentFor(f, a, mid, Len(handoffs)) <= 1
====
